---- MODULE Spec2Model ----
(***************************************************************************)
(* Plan execution (SDKCodeGenerator.generate_from_plan), confidence-gated  *)
(* retrieval (SDKRetriever._get_relevant_documents), planning              *)
(* (TaskPlanner.create_plan), the documentation updater                    *)
(* (DocumentationUpdater) and ingestion (ingest_sdk_documentation).        *)
(*                                                                         *)
(* Conventions                                                             *)
(*  - a Python Optional[List] is a set holding at most one sequence        *)
(*    ({} is None);                                                        *)
(*  - a float confidence or score is an integer number of hundredths; the  *)
(*    mean returned by generate_from_plan is the exact rational num/den;   *)
(*  - a task's description is the position of the task in the plan, so two *)
(*    tasks of a plan are never equal as values even when their ids are;   *)
(*  - task ids are numbered in order of first appearance in the plan (the  *)
(*    code only ever compares ids for equality); nothing makes them        *)
(*    unique, so plans with repeated ids are among the inputs;             *)
(*  - CodeTask.sdk_components and CodeOutput.explanation are read by no    *)
(*    branch of generate_from_plan and are left out; the documentation     *)
(*    lookup and the LLM chain inside generate_code_for_task are the       *)
(*    environment: they return one of ChainOutputs or raise;               *)
(*  - all_code is the sequence of the blocks appended at lines 199-200;    *)
(*  - a document is its page_content and the source that produced it.      *)
(***************************************************************************)
EXTENDS Integers, Sequences, FiniteSets, TLC

\* ---------------------------------------------------------------- bounds
MaxTasks == 3

\* invocations of generate_from_plan in flight on one generator, and the
\* size of their plans
MaxInvocations == 2

MaxInterleavedTasks == 2

\* the updater: configured repositories, threads ever created by start(),
\* passes of update_all started
MaxRepos == 2

MaxThreads == 2

MaxPasses == 2
MaxDeps == 2
K == 2

\* ------------------------------------------------------ program constants
ConfidenceThreshold == 85
MaxResults == 3

VARIABLES
    plan,             \* plan.tasks, the argument of generate_from_plan
    remaining_tasks,  \* code_generator.py:179
    completed_tasks,  \* code_generator.py:178
    ready_tasks,      \* code_generator.py:183-191, the batch of the current pass
    idx,              \* position of the for loop (line 194) in ready_tasks
    task_outputs,     \* code_generator.py:175, a dict in insertion order
    all_code,         \* code_generator.py:174, the blocks appended so far
    pc,               \* "create_plan" (service.py:83), "while" (line 181),
                      \* "for" (line 194), "done" (returned)
    iterations,       \* passes of the while loop started so far
    calls,            \* the calls of generate_code_for_task made so far (line 195)
    retval            \* {} until generate_from_plan returns, then {its dict}

gen_vars == <<plan, remaining_tasks, completed_tasks, ready_tasks, idx,
              task_outputs, all_code, pc, iterations, calls, retval>>

VARIABLES
    web_retriever,    \* enhanced_retriever.py:38, "None" or "WebSearchRetriever"
    filter_fn,        \* enhanced_retriever.py:41
    use_web_search,   \* settings.py:23
    vector_store,     \* what similarity_search_with_score did in the last call
    search_wrapper,   \* what the web search and the page loads do, last call
    web_docs,         \* what the web retriever returned, last call
    web_queries,      \* queries of the web retriever, last call
    returned_docs,    \* the list _get_relevant_documents returned
    propagated,       \* the last call ended with an exception, not a list
    retrieved         \* a call of _get_relevant_documents has returned

ret_vars == <<web_retriever, filter_fn, use_web_search, vector_store,
              search_wrapper, web_docs, web_queries, returned_docs, propagated,
              retrieved>>

\* the planner
VARIABLES
    planner           \* "none" until create_plan ran, then "ok" or "failed"

plan_vars == <<planner>>

\* invocations of generate_from_plan on one SDKCodeGenerator
VARIABLES
    store,            \* the cells that hold completed_tasks, remaining_tasks,
                      \* all_code and task_outputs (code_generator.py:174-179)
    inv               \* per invocation: plan, position, batch, calls, result

two_vars == <<store, inv>>

core_vars == <<gen_vars, ret_vars, plan_vars, two_vars>>

\* DocumentationUpdater (updater.py)
VARIABLES
    repo_urls,        \* updater.py:27, zipped with dataset_paths (line 28)
    running,          \* updater.py:30
    thread,           \* updater.py:31, 0 is None, else the id of the Thread
    tpc,              \* position of every thread in _updater_thread
    caller,           \* what the thread that calls start/stop/force_update does
    last_call,        \* the last of start, stop, force_update that returned
    pass,             \* per executor, its position in update_all (lines 38-49)
    passes,           \* passes of update_all started so far
    finished,         \* passes of update_all that ended
    last_update,      \* updater.py:32, the number of times line 48 set it
    log               \* the pass that ended last

upd_vars == <<repo_urls, running, thread, tpc, caller, last_call, pass, passes,
              finished, last_update, log>>

\* ingest_sdk_documentation (documentation_ingest.py)
VARIABLES
    dataset,          \* the Deep Lake dataset at dataset_path
    dataset_before,   \* the dataset when ingest_sdk_documentation was called
    all_chunks,       \* documentation_ingest.py:182
    ingest_outcome,   \* what the clone, the store and its calls did
    ingest_ret        \* "none" until the call returns, then "True" or "False"

ing_vars == <<dataset, dataset_before, all_chunks, ingest_outcome, ingest_ret>>

svc_vars == <<upd_vars, ing_vars>>

vars == <<gen_vars, ret_vars, plan_vars, two_vars, upd_vars, ing_vars>>

\* ------------------------------------------------------------ data model
TaskIds == 1..MaxTasks

\* ids a dependency may name: the ids of tasks, and 0, an id of no task
DepIds == 0..MaxTasks

DepSets == {d \in SUBSET DepIds : Cardinality(d) <= MaxDeps}

SetMax(S) == IF S = {} THEN 0 ELSE CHOOSE m \in S : \A x \in S : x <= m

\* ids numbered in order of first appearance
IdAssignments(n) ==
    {f \in [1..n -> TaskIds] :
        \A i \in 1..n : f[i] <= 1 + SetMax({f[j] : j \in 1..(i - 1)})}

CodeTask(id, description, dependencies) ==
    [id |-> id, description |-> description, dependencies |-> dependencies]

Plans ==
    UNION {
        {[i \in 1..n |-> CodeTask(ids[i], i, deps[i])] :
            ids \in IdAssignments(n), deps \in [1..n -> DepSets]}
        : n \in 0..MaxTasks}

None == {}

OrEmpty(opt) == IF opt = {} THEN <<>> ELSE CHOOSE s \in opt : TRUE

CodeOutput(code, confidence, missing_info, suggestions) ==
    [code |-> code, confidence |-> confidence,
     missing_info |-> missing_info, suggestions |-> suggestions]

GeneratedCode == [marker |-> "generated", description |-> 0]

\* what the chain (prompt | llm | output_parser) may return
ChainOutputs ==
    { CodeOutput(GeneratedCode, 90, None, {<<"s">>}),
      CodeOutput(GeneratedCode, 60, {<<>>}, {<<>>}),
      CodeOutput(GeneratedCode, 30, {<<"m">>}, {<<"t">>}) }

\* what happens inside the try block of generate_code_for_task
Outcomes ==
    {[raised |-> FALSE, output |-> o] : o \in ChainOutputs}
    \cup {[raised |-> TRUE, output |-> CodeOutput(GeneratedCode, 0, None, None)]}

\* ------------------------------------------------- generate_code_for_task
\* mutant: the placeholder built without missing_info
FallbackOutputNoHint(task) ==
    CodeOutput([marker |-> "error", description |-> task.description], 0, None, None)

FallbackOutput(task) ==
    CodeOutput([marker |-> "error", description |-> task.description], 0,
               {<<"Error occurred during generation. Please try again with more detail.">>},
               None)

GenerateCodeForTask(task, previous_code, outcome) ==
    IF outcome.raised THEN FallbackOutput(task) ELSE outcome.output

\* ----------------------------------------------------- generate_from_plan
\* mutant: any() where the code has all()
DependenciesSatisfiedAny(task, completed) ==
    \E dep \in task.dependencies : dep \in completed

DependenciesSatisfied(task, completed) ==
    \A dep \in task.dependencies : dep \in completed

\* mutant: lines 188-191 left out
ReadyTasksNoForce(remaining, completed) ==
    SelectSeq(remaining, LAMBDA t : DependenciesSatisfied(t, completed))

\* mutant: the dependency test of line 185 left out
ReadyTasksAll(remaining, completed) == remaining

\* mutant: line 191 takes every remaining task instead of the first
ReadyTasksForceAll(remaining, completed) ==
    LET ready == SelectSeq(remaining, LAMBDA t : DependenciesSatisfied(t, completed))
    IN  IF ready = <<>> THEN remaining ELSE ready

\* mutant: the readiness test of lines 183-186 left out, always line 191
ReadyTasksFirst(remaining, completed) == <<remaining[1]>>

\* mutant: a task made ready by a task chosen before it joins the same batch
RECURSIVE EagerFrom(_, _)
EagerFrom(remaining, completed) ==
    IF remaining = <<>> THEN <<>>
    ELSE IF DependenciesSatisfied(Head(remaining), completed)
         THEN <<Head(remaining)>>
              \o EagerFrom(Tail(remaining), completed \cup {Head(remaining).id})
         ELSE EagerFrom(Tail(remaining), completed)

ReadyTasksEager(remaining, completed) ==
    LET ready == EagerFrom(remaining, completed)
    IN  IF ready = <<>> THEN <<remaining[1]>> ELSE ready

ReadyTasks(remaining, completed) ==
    LET ready == SelectSeq(remaining, LAMBDA t : DependenciesSatisfied(t, completed))
    IN  IF ready = <<>> THEN <<remaining[1]>> ELSE ready

\* list.remove: drops the first element equal to x
RECURSIVE Remove(_, _)
Remove(s, x) ==
    IF s = <<>> THEN <<>>
    ELSE IF Head(s) = x THEN Tail(s)
    ELSE <<Head(s)>> \o Remove(Tail(s), x)

HasKey(d, key) == \E n \in DOMAIN d : d[n].key = key

\* mutant: a list of (key, value) pairs where the code has a dict
DictSetAppend(d, key, value) == Append(d, [key |-> key, value |-> value])

\* dict[key] = value: an existing key keeps its place, a new key goes last
DictSet(d, key, value) ==
    IF HasKey(d, key)
    THEN [n \in DOMAIN d |-> IF d[n].key = key THEN [key |-> key, value |-> value] ELSE d[n]]
    ELSE Append(d, [key |-> key, value |-> value])

\* mutant: the block carries no task description
CodeBlockNoHeader(task, output) == [description |-> 0, code |-> output.code]

CodeBlock(task, output) == [description |-> task.description, code |-> output.code]

RECURSIVE SumConfidence(_)
SumConfidence(d) ==
    IF d = <<>> THEN 0 ELSE Head(d).value.confidence + SumConfidence(Tail(d))

\* mutant: the `if task_outputs else 0` of line 207 left out
OverallConfidenceNoGuard(d) == [num |-> SumConfidence(d), den |-> Len(d)]

OverallConfidence(d) ==
    IF d # <<>> THEN [num |-> SumConfidence(d), den |-> Len(d)]
    ELSE [num |-> 0, den |-> 1]

\* mutant: each output's items put in front of the items gathered so far
RECURSIVE FlattenMissingInfoReversed(_)
FlattenMissingInfoReversed(d) ==
    IF d = <<>> THEN <<>>
    ELSE FlattenMissingInfoReversed(Tail(d)) \o OrEmpty(Head(d).value.missing_info)

RECURSIVE FlattenMissingInfo(_)
FlattenMissingInfo(d) ==
    IF d = <<>> THEN <<>>
    ELSE OrEmpty(Head(d).value.missing_info) \o FlattenMissingInfo(Tail(d))

RECURSIVE FlattenSuggestions(_)
FlattenSuggestions(d) ==
    IF d = <<>> THEN <<>>
    ELSE OrEmpty(Head(d).value.suggestions) \o FlattenSuggestions(Tail(d))

\* ------------------------------------------------------------ retrieval
Contents == {"a", "b", "c"}

Scores == {50, 90}

Document(page_content, source) == [page_content |-> page_content, source |-> source]

\* what similarity_search_with_score may return: at most K (doc, score) pairs
VectorResults ==
    UNION {[1..n -> {[doc |-> Document(c, "vector"), score |-> sc] :
                        c \in Contents, sc \in Scores}]
           : n \in 0..K}

VectorOutcomes ==
    {[raised |-> FALSE, results |-> r] : r \in VectorResults}
    \cup {[raised |-> TRUE, results |-> <<>>]}

\* a search result: without link, with a page that fails to load, or with a
\* page of the given content
Pages == {"nolink", "loadfail"} \cup Contents

SearchOutcomes ==
    {[raised |-> FALSE, results |-> r] :
        r \in UNION {[1..n -> Pages] : n \in 0..MaxResults}}
    \cup {[raised |-> TRUE, results |-> <<>>]}

NoFilter == [configured |-> FALSE, raises |-> FALSE, accepts |-> {}]

FilterFns ==
    {NoFilter, [configured |-> TRUE, raises |-> TRUE, accepts |-> {}]}
    \cup {[configured |-> TRUE, raises |-> FALSE, accepts |-> A] : A \in SUBSET Contents}

Min(a, b) == IF a <= b THEN a ELSE b

\* s[:n]
Take(s, n) == SubSeq(s, 1, Min(n, Len(s)))

PageContents(s) == [n \in DOMAIN s |-> s[n].page_content]

\* WebSearchRetriever._get_relevant_documents: a failed search or no result
\* gives [], a result without link or whose page fails to load is skipped
WebGetRelevantDocuments(search) ==
    IF search.raised \/ search.results = <<>> THEN <<>>
    ELSE LET loaded == SelectSeq(search.results, LAMBDA r : r \in Contents)
         IN  [n \in DOMAIN loaded |-> Document(loaded[n], "web")]

VectorDocs(vector_results) == [n \in DOMAIN vector_results |-> vector_results[n].doc]

VectorScores(vector_results) == [n \in DOMAIN vector_results |-> vector_results[n].score]

MaxConfidence(scores) ==
    IF scores # <<>>
    THEN CHOOSE m \in {scores[n] : n \in DOMAIN scores} :
            \A n \in DOMAIN scores : scores[n] <= m
    ELSE 0

FilterRaises(docs, fn) == fn.configured /\ docs # <<>> /\ fn.raises

ApplyFilter(docs, fn) ==
    IF fn.configured /\ docs # <<>>
    THEN SelectSeq(docs, LAMBDA d : d.page_content \in fn.accepts)
    ELSE docs

\* mutant: the whole test of line 68 under settings.use_web_search
FallbackTriggeredIfEnabled(docs, max_confidence, enabled) ==
    (docs = <<>> \/ max_confidence < ConfidenceThreshold) /\ enabled

\* mutant: settings.use_web_search not consulted
FallbackTriggeredNoSetting(docs, max_confidence, enabled) ==
    docs = <<>> \/ max_confidence < ConfidenceThreshold

FallbackTriggered(docs, max_confidence, enabled) ==
    docs = <<>> \/ (max_confidence < ConfidenceThreshold /\ enabled)

\* mutant: web results appended without the content test
CombinedNoDedup(docs, web) == docs \o web

\* mutant: the web results put in front of the vector store's
CombinedWebFirst(docs, web) ==
    SelectSeq(web, LAMBDA w :
        \A n \in DOMAIN docs : w.page_content # docs[n].page_content) \o docs

Combined(docs, web) ==
    docs \o SelectSeq(web, LAMBDA w :
                \A n \in DOMAIN docs : w.page_content # docs[n].page_content)

\* mutant: the try/except of web_search.py lines 103-145 left out
WebQueryUncaught(search) ==
    [raised |-> search.raised, docs |-> WebGetRelevantDocuments(search)]

\* web_retriever.get_relevant_documents as its caller sees it: every error
\* of the search and of a page load is caught inside (web_search.py lines
\* 103-145), so the call returns a list
WebQuery(search) == [raised |-> FALSE, docs |-> WebGetRelevantDocuments(search)]

Answer(docs, queries, web) ==
    [raised |-> FALSE, docs |-> docs, web_queries |-> queries, web_docs |-> web]

\* an exception leaves _get_relevant_documents
Raise(queries) ==
    [raised |-> TRUE, docs |-> <<>>, web_queries |-> queries, web_docs |-> <<>>]

\* mutant: the [:self.k] of line 92 left out
OnVectorErrorNoTruncate(retriever, search) ==
    IF retriever # "None"
    THEN LET web == WebQuery(search)
         IN  IF web.raised THEN Raise(1) ELSE Answer(web.docs, 1, web.docs)
    ELSE Answer(<<>>, 0, <<>>)

\* lines 86-93: nothing catches an error raised in the except block
OnVectorError(retriever, search) ==
    IF retriever # "None"
    THEN LET web == WebQuery(search)
         IN  IF web.raised THEN Raise(1) ELSE Answer(Take(web.docs, K), 1, web.docs)
    ELSE Answer(<<>>, 0, <<>>)

\* lines 46-93: an error of the vector store, of the filter or of the web
\* retriever inside the try block enters the except block
GetRelevantDocumentsResult(vs, search, retriever, fn, enabled) ==
    IF vs.raised \/ FilterRaises(VectorDocs(vs.results), fn)
    THEN OnVectorError(retriever, search)
    ELSE LET docs == ApplyFilter(VectorDocs(vs.results), fn)
             max_confidence == MaxConfidence(VectorScores(vs.results))
         IN  IF FallbackTriggered(docs, max_confidence, enabled) /\ retriever # "None"
             THEN LET web == WebQuery(search)
                  IN  IF web.raised
                      THEN LET again == OnVectorError(retriever, search)
                           IN  [again EXCEPT !.web_queries = @ + 1]
                      ELSE IF docs # <<>>
                           THEN Answer(Take(Combined(docs, web.docs), K), 1, web.docs)
                           ELSE Answer(Take(web.docs, K), 1, web.docs)
             ELSE Answer(docs, 0, <<>>)

\* create_plan has not been called
PlannerIdle == planner = "none"

\* ------------------------------------------------- DocumentationUpdater
ThreadIds == 1..MaxThreads

\* who may run update_all: 0 is the thread that calls force_update, the
\* others are the threads start() created
Executors == 0..MaxThreads

NoPass == [pos |-> 0, attempts |-> <<>>, success_count |-> 0]

NoLog == [executor |-> 0, attempts |-> <<>>, success_count |-> 0,
          propagated |-> FALSE, last_update_set |-> FALSE]

\* lines 27-32: the updater as __init__ leaves it
UpdNew ==
    /\ running = FALSE
    /\ thread = 0
    /\ tpc = [t \in ThreadIds |-> "none"]
    /\ caller = "idle"
    /\ last_call = "none"
    /\ pass = [e \in Executors |-> NoPass]
    /\ passes = 0
    /\ finished = 0
    /\ last_update = 0
    /\ log = NoLog

UpdIdle == repo_urls = <<>> /\ UpdNew

\* ------------------------------------------- ingest_sdk_documentation
Chunks == {"x", "y"}

NoDataset == [exists |-> FALSE, chunks |-> {}]

Datasets == {NoDataset} \cup {[exists |-> TRUE, chunks |-> c] : c \in SUBSET Chunks}

NoOutcome == [load |-> "none", open |-> "none", add |-> "none", create |-> "none"]

IngIdle ==
    /\ dataset = NoDataset
    /\ dataset_before = NoDataset
    /\ all_chunks = {}
    /\ ingest_outcome = NoOutcome
    /\ ingest_ret = "none"

SvcIdle == UpdIdle /\ IngIdle

Invocations == 1..MaxInvocations

EmptyCell(p) ==
    [remaining_tasks |-> p, completed_tasks |-> {},
     all_code |-> <<>>, task_outputs |-> <<>>]

IdleInvocation ==
    [plan |-> <<>>, pc |-> "idle", ready_tasks |-> <<>>, idx |-> 1,
     calls |-> <<>>, retval |-> {}]

\* no invocation of generate_from_plan has started
TwoIdle ==
    /\ store = [c \in Invocations |-> EmptyCell(<<>>)]
    /\ inv = [i \in Invocations |-> IdleInvocation]

GenIdle ==
    /\ plan = <<>>
    /\ remaining_tasks = <<>>
    /\ completed_tasks = {}
    /\ ready_tasks = <<>>
    /\ idx = 1
    /\ task_outputs = <<>>
    /\ all_code = <<>>
    /\ pc = "while"
    /\ iterations = 0
    /\ calls = <<>>
    /\ retval = {}

NoCallYet ==
    /\ vector_store = [raised |-> FALSE, results |-> <<>>]
    /\ search_wrapper = [raised |-> FALSE, results |-> <<>>]
    /\ web_docs = <<>>
    /\ web_queries = 0
    /\ returned_docs = <<>>
    /\ propagated = FALSE
    /\ retrieved = FALSE

\* the retriever as setup_retriever builds it with web search off
RetIdle ==
    /\ web_retriever = "None"
    /\ filter_fn = NoFilter
    /\ use_web_search = FALSE
    /\ NoCallYet

InitRet ==
    /\ web_retriever \in {"None", "WebSearchRetriever"}
    /\ filter_fn \in FilterFns
    /\ use_web_search \in BOOLEAN
    /\ NoCallYet
    /\ GenIdle
    /\ PlannerIdle
    /\ TwoIdle
    /\ SvcIdle

\* one call of SDKRetriever._get_relevant_documents; a call reads nothing an
\* earlier call wrote, so a behaviour holds one call
GetRelevantDocuments ==
    /\ ~retrieved
    /\ \E vs \in VectorOutcomes, search \in SearchOutcomes :
        LET answer == GetRelevantDocumentsResult(vs, search, web_retriever,
                                                 filter_fn, use_web_search)
        IN  /\ vector_store' = vs
            /\ search_wrapper' = search
            /\ web_docs' = answer.web_docs
            /\ web_queries' = answer.web_queries
            /\ returned_docs' = answer.docs
            /\ propagated' = answer.raised
    /\ retrieved' = TRUE
    /\ UNCHANGED <<web_retriever, filter_fn, use_web_search>>
    /\ UNCHANGED gen_vars
    /\ UNCHANGED plan_vars
    /\ UNCHANGED two_vars
    /\ UNCHANGED svc_vars

InitGen ==
    /\ plan \in Plans
    /\ remaining_tasks = plan
    /\ completed_tasks = {}
    /\ ready_tasks = <<>>
    /\ idx = 1
    /\ task_outputs = <<>>
    /\ all_code = <<>>
    /\ pc = "while"
    /\ iterations = 0
    /\ calls = <<>>
    /\ retval = {}
    /\ RetIdle
    /\ PlannerIdle
    /\ TwoIdle
    /\ SvcIdle

\* line 181 true, lines 183-191: one more pass, the batch is computed
WhileHead ==
    /\ pc = "while"
    /\ remaining_tasks # <<>>
    /\ ready_tasks' = ReadyTasks(remaining_tasks, completed_tasks)
    /\ iterations' = iterations + 1
    /\ idx' = 1
    /\ pc' = IF ready_tasks' = <<>> THEN "while" ELSE "for"
    /\ UNCHANGED <<plan, remaining_tasks, completed_tasks, task_outputs,
                   all_code, calls, retval>>
    /\ UNCHANGED ret_vars
    /\ UNCHANGED plan_vars
    /\ UNCHANGED two_vars
    /\ UNCHANGED svc_vars

\* lines 194-204: the body of the for loop for ready_tasks[idx]
ForBody ==
    /\ pc = "for"
    /\ idx <= Len(ready_tasks)
    /\ \E outcome \in Outcomes :
        LET task == ready_tasks[idx]
            result == GenerateCodeForTask(task, all_code, outcome)
        IN  /\ calls' = Append(calls, [task |-> task, previous_code |-> all_code,
                                       completed |-> completed_tasks,
                                       pass |-> iterations,
                                       raised |-> outcome.raised, result |-> result])
            /\ task_outputs' = DictSet(task_outputs, task.id, result)
            /\ all_code' = Append(all_code, CodeBlock(task, result))
            /\ completed_tasks' = completed_tasks \cup {task.id}
            /\ remaining_tasks' = Remove(remaining_tasks, task)
    /\ idx' = idx + 1
    /\ pc' = IF idx' > Len(ready_tasks) THEN "while" ELSE "for"
    /\ UNCHANGED <<plan, ready_tasks, iterations, retval>>
    /\ UNCHANGED ret_vars
    /\ UNCHANGED plan_vars
    /\ UNCHANGED two_vars
    /\ UNCHANGED svc_vars

\* line 181 false, lines 206-217
Return ==
    /\ pc = "while"
    /\ remaining_tasks = <<>>
    /\ retval' = {[code |-> all_code,
                   task_outputs |-> task_outputs,
                   confidence |-> OverallConfidence(task_outputs),
                   missing_info |-> FlattenMissingInfo(task_outputs),
                   suggestions |-> FlattenSuggestions(task_outputs)]}
    /\ pc' = "done"
    /\ UNCHANGED <<plan, remaining_tasks, completed_tasks, ready_tasks, idx,
                   task_outputs, all_code, iterations, calls>>
    /\ UNCHANGED ret_vars
    /\ UNCHANGED plan_vars
    /\ UNCHANGED two_vars
    /\ UNCHANGED svc_vars

NextGen == WhileHead \/ ForBody \/ Return

\* ------------------------------------------------------------ create_plan
\* the fallback plan of task_planner.py lines 88-94: the one task
\* 'fallback_task', dependencies left at the default []
FallbackPlan == <<CodeTask(1, 1, {})>>

\* what prompt | llm | output_parser may do: raise, or return a CodePlan
\* that passes validation (tasks: List[CodeTask], an empty list included)
PlannerOutcomes ==
    {[raised |-> FALSE, plan |-> p] : p \in Plans}
    \cup {[raised |-> TRUE, plan |-> <<>>]}

\* TaskPlanner.create_plan, lines 69-94
CreatePlanResult(outcome) ==
    IF outcome.raised THEN FallbackPlan ELSE outcome.plan

\* CodeSession.generate_code before its first call (service.py:76)
InitPlan ==
    /\ plan = <<>>
    /\ remaining_tasks = <<>>
    /\ completed_tasks = {}
    /\ ready_tasks = <<>>
    /\ idx = 1
    /\ task_outputs = <<>>
    /\ all_code = <<>>
    /\ pc = "create_plan"
    /\ iterations = 0
    /\ calls = <<>>
    /\ retval = {}
    /\ RetIdle
    /\ PlannerIdle
    /\ TwoIdle
    /\ SvcIdle

\* service.py:83 and 86: create_plan returns the plan and generate_from_plan
\* is entered with it (code_generator.py lines 173-179)
CreatePlan ==
    /\ pc = "create_plan"
    /\ \E outcome \in PlannerOutcomes :
        /\ plan' = CreatePlanResult(outcome)
        /\ planner' = IF outcome.raised THEN "failed" ELSE "ok"
    /\ remaining_tasks' = plan'
    /\ pc' = "while"
    /\ UNCHANGED <<completed_tasks, ready_tasks, idx, task_outputs, all_code,
                   iterations, calls, retval>>
    /\ UNCHANGED ret_vars
    /\ UNCHANGED two_vars
    /\ UNCHANGED svc_vars

NextPlan == CreatePlan \/ WhileHead \/ ForBody \/ Return

PlanSpec == InitPlan /\ [][NextPlan]_vars

\* ------------------------------------- invocations on the same generator
\* the plans of invocation i: unique ids, any dependencies among them;
\* the descriptions tell the invocations apart
InterleavedPlans(i) ==
    UNION {
        {[k \in 1..n |-> CodeTask(k, 10 * i + k, deps[k])] :
            deps \in [1..n -> SUBSET (1..n)]}
        : n \in 0..MaxInterleavedTasks}

\* mutant: the four accumulators kept on the generator (self), one cell
\* for every invocation
OwnerShared(i) == 1

\* lines 174-179: the accumulators are locals of the call, each invocation
\* has its own
Owner(i) == i

Cell(i) == store[Owner(i)]

InitTwo ==
    /\ TwoIdle
    /\ SvcIdle
    /\ GenIdle
    /\ RetIdle
    /\ PlannerIdle

\* lines 173-179: invocation i is entered with plan p
Invoke(i) ==
    /\ inv[i].pc = "idle"
    /\ \E p \in InterleavedPlans(i) :
        /\ inv' = [inv EXCEPT ![i] = [IdleInvocation EXCEPT !.plan = p, !.pc = "while"]]
        /\ store' = [store EXCEPT ![Owner(i)] = EmptyCell(p)]
    /\ UNCHANGED <<gen_vars, ret_vars, plan_vars>>
    /\ UNCHANGED svc_vars

\* lines 181-191 in invocation i
TwoWhileHead(i) ==
    /\ inv[i].pc = "while"
    /\ Cell(i).remaining_tasks # <<>>
    /\ inv' = [inv EXCEPT ![i].ready_tasks =
                            ReadyTasks(Cell(i).remaining_tasks, Cell(i).completed_tasks),
                          ![i].idx = 1,
                          ![i].pc = "for"]
    /\ UNCHANGED store
    /\ UNCHANGED <<gen_vars, ret_vars, plan_vars>>
    /\ UNCHANGED svc_vars

\* lines 194-204 in invocation i
TwoForBody(i) ==
    /\ inv[i].pc = "for"
    /\ inv[i].idx <= Len(inv[i].ready_tasks)
    /\ \E outcome \in Outcomes :
        LET task == inv[i].ready_tasks[inv[i].idx]
            cell == Cell(i)
            result == GenerateCodeForTask(task, cell.all_code, outcome)
        IN  /\ inv' = [inv EXCEPT
                        ![i].calls = Append(@, [task |-> task,
                                                previous_code |-> cell.all_code,
                                                completed |-> cell.completed_tasks,
                                                result |-> result]),
                        ![i].idx = @ + 1,
                        ![i].pc = IF inv[i].idx + 1 > Len(inv[i].ready_tasks)
                                  THEN "while" ELSE "for"]
            /\ store' = [store EXCEPT ![Owner(i)] =
                    [remaining_tasks |-> Remove(cell.remaining_tasks, task),
                     completed_tasks |-> cell.completed_tasks \cup {task.id},
                     all_code |-> Append(cell.all_code, CodeBlock(task, result)),
                     task_outputs |-> DictSet(cell.task_outputs, task.id, result)]]
    /\ UNCHANGED <<gen_vars, ret_vars, plan_vars>>
    /\ UNCHANGED svc_vars

\* lines 206-217 in invocation i
TwoReturn(i) ==
    /\ inv[i].pc = "while"
    /\ Cell(i).remaining_tasks = <<>>
    /\ inv' = [inv EXCEPT
                ![i].retval = {[code |-> Cell(i).all_code,
                                task_outputs |-> Cell(i).task_outputs,
                                confidence |-> OverallConfidence(Cell(i).task_outputs),
                                missing_info |-> FlattenMissingInfo(Cell(i).task_outputs),
                                suggestions |-> FlattenSuggestions(Cell(i).task_outputs)]},
                ![i].pc = "done"]
    /\ UNCHANGED store
    /\ UNCHANGED <<gen_vars, ret_vars, plan_vars>>
    /\ UNCHANGED svc_vars

NextTwo ==
    \E i \in Invocations :
        Invoke(i) \/ TwoWhileHead(i) \/ TwoForBody(i) \/ TwoReturn(i)

TwoSpec == InitTwo /\ [][NextTwo]_vars

\* ------------------------------------------------- DocumentationUpdater
\* what ingest_sdk_documentation does for one repository (line 42)
IngestResults == {"True", "False", "raised"}

\* mutant: the try/except of lines 41-46 left out
AfterIngestUncaught(result, success_count) ==
    [propagated |-> result = "raised",
     success_count |-> IF result = "True" THEN success_count + 1 ELSE success_count]

\* lines 41-46: a success is counted, an exception is logged
AfterIngest(result, success_count) ==
    [propagated |-> FALSE,
     success_count |-> IF result = "True" THEN success_count + 1 ELSE success_count]

Alive(t) == t # 0 /\ tpc[t] \notin {"none", "dead"}

InitUpd ==
    /\ repo_urls \in {[i \in 1..n |-> i] : n \in 0..MaxRepos}
    /\ UpdNew
    /\ IngIdle
    /\ GenIdle
    /\ RetIdle
    /\ PlannerIdle
    /\ TwoIdle

\* lines 38-39: executor e enters update_all
BeginPass(e) ==
    /\ passes < MaxPasses
    /\ passes' = passes + 1
    /\ pass' = [pass EXCEPT ![e] = [NoPass EXCEPT !.pos = 1]]

\* update_all has ended in executor e, by line 49 or by an exception
EndPass(e, attempts, success_count, raised) ==
    /\ pass' = [pass EXCEPT ![e] = NoPass]
    /\ finished' = finished + 1
    /\ last_update' = IF raised THEN last_update ELSE last_update + 1
    /\ log' = [executor |-> e, attempts |-> attempts, success_count |-> success_count,
               propagated |-> raised, last_update_set |-> ~raised]
    /\ IF e = 0
       THEN /\ caller' = "idle"
            /\ last_call' = "force_update"
            /\ UNCHANGED tpc
       ELSE /\ tpc' = [tpc EXCEPT ![e] = IF raised THEN "dead" ELSE "sleep"]
            /\ UNCHANGED <<caller, last_call>>

\* lines 39-46: one turn of the for loop in executor e
UpdateStep(e) ==
    /\ pass[e].pos \in 1..Len(repo_urls)
    /\ \E result \in IngestResults :
        LET after == AfterIngest(result, pass[e].success_count)
            attempts == Append(pass[e].attempts,
                               [repo |-> repo_urls[pass[e].pos], result |-> result])
        IN  IF after.propagated
            THEN EndPass(e, attempts, after.success_count, TRUE)
            ELSE /\ pass' = [pass EXCEPT ![e] = [pos |-> pass[e].pos + 1,
                                                  attempts |-> attempts,
                                                  success_count |-> after.success_count]]
                 /\ UNCHANGED <<tpc, caller, last_call, finished, last_update, log>>
    /\ UNCHANGED <<repo_urls, running, thread, passes>>
    /\ UNCHANGED <<core_vars, ing_vars>>

\* lines 48-49: the loop is over, last_update is set, update_all returns
UpdateEnd(e) ==
    /\ pass[e].pos = Len(repo_urls) + 1
    /\ EndPass(e, pass[e].attempts, pass[e].success_count, FALSE)
    /\ UNCHANGED <<repo_urls, running, thread, passes>>
    /\ UNCHANGED <<core_vars, ing_vars>>

\* lines 65-73: start(); is_alive() is true from Thread.start() until the
\* thread function has returned
Start ==
    /\ caller = "idle"
    /\ IF Alive(thread)
       THEN UNCHANGED <<running, thread, tpc>>
       ELSE /\ \E t \in ThreadIds :
                /\ tpc[t] = "none"
                /\ \A u \in ThreadIds : u < t => tpc[u] # "none"
                /\ thread' = t
                /\ tpc' = [tpc EXCEPT ![t] = "setup"]
            /\ running' = TRUE
    /\ last_call' = "start"
    /\ UNCHANGED <<repo_urls, caller, pass, passes, finished, last_update, log>>
    /\ UNCHANGED <<core_vars, ing_vars>>

\* lines 77-79: stop() clears the flag and, with a thread, waits in join
Stop ==
    /\ caller = "idle"
    /\ running' = FALSE
    /\ IF thread # 0
       THEN caller' = "join" /\ UNCHANGED last_call
       ELSE last_call' = "stop" /\ UNCHANGED caller
    /\ UNCHANGED <<repo_urls, thread, tpc, pass, passes, finished, last_update, log>>
    /\ UNCHANGED <<core_vars, ing_vars>>

\* line 79: join returns when the thread has ended, or after 10 s while the
\* thread is in its 60 s sleep or inside update_all
JoinReturn ==
    /\ caller = "join"
    /\ tpc[thread] \in {"dead", "sleep", "update"}
    /\ caller' = "idle"
    /\ last_call' = "stop"
    /\ UNCHANGED <<repo_urls, running, thread, tpc, pass, passes, finished,
                   last_update, log>>
    /\ UNCHANGED <<core_vars, ing_vars>>

\* lines 81-84: force_update() runs update_all in the calling thread
ForceUpdate ==
    /\ caller = "idle"
    /\ caller' = "update"
    /\ BeginPass(0)
    /\ UNCHANGED <<repo_urls, running, thread, tpc, last_call, finished,
                   last_update, log>>
    /\ UNCHANGED <<core_vars, ing_vars>>

\* lines 53-57 in thread t
ThreadSetup(t) ==
    /\ tpc[t] = "setup"
    /\ tpc' = [tpc EXCEPT ![t] = "loop"]
    /\ UNCHANGED <<repo_urls, running, thread, caller, last_call, pass, passes,
                   finished, last_update, log>>
    /\ UNCHANGED <<core_vars, ing_vars>>

\* line 59 in thread t: the test of self.running; lines 63: the thread ends
ThreadLoop(t) ==
    /\ tpc[t] = "loop"
    /\ tpc' = [tpc EXCEPT ![t] = IF running THEN "pending" ELSE "dead"]
    /\ UNCHANGED <<repo_urls, running, thread, caller, last_call, pass, passes,
                   finished, last_update, log>>
    /\ UNCHANGED <<core_vars, ing_vars>>

\* line 60 in thread t: the job is not due; line 61: the thread sleeps
ThreadNotDue(t) ==
    /\ tpc[t] = "pending"
    /\ tpc' = [tpc EXCEPT ![t] = "sleep"]
    /\ UNCHANGED <<repo_urls, running, thread, caller, last_call, pass, passes,
                   finished, last_update, log>>
    /\ UNCHANGED <<core_vars, ing_vars>>

\* line 60 in thread t: the job is due, run_pending calls update_all
ThreadDue(t) ==
    /\ tpc[t] = "pending"
    /\ tpc' = [tpc EXCEPT ![t] = "update"]
    /\ BeginPass(t)
    /\ UNCHANGED <<repo_urls, running, thread, caller, last_call, finished,
                   last_update, log>>
    /\ UNCHANGED <<core_vars, ing_vars>>

\* line 61 in thread t: the sleep is over
ThreadWake(t) ==
    /\ tpc[t] = "sleep"
    /\ tpc' = [tpc EXCEPT ![t] = "loop"]
    /\ UNCHANGED <<repo_urls, running, thread, caller, last_call, pass, passes,
                   finished, last_update, log>>
    /\ UNCHANGED <<core_vars, ing_vars>>

NextUpd ==
    \/ Start
    \/ Stop
    \/ JoinReturn
    \/ ForceUpdate
    \/ \E e \in Executors : UpdateStep(e) \/ UpdateEnd(e)
    \/ \E t \in ThreadIds :
        ThreadSetup(t) \/ ThreadLoop(t) \/ ThreadNotDue(t) \/ ThreadDue(t) \/ ThreadWake(t)

UpdSpec == InitUpd /\ [][NextUpd]_vars

\* ------------------------------------------- ingest_sdk_documentation
\* what the environment does in one call: the clone, the loaders and the
\* splitters (lines 121-186) work or raise; opening the dataset with
\* overwrite=False (lines 192-196) works or raises; add_documents (line
\* 198) works or raises; from_documents with overwrite=True (lines 201-206)
\* works, raises before it has touched the dataset, or raises after it has
\* emptied it
IngestOutcomes ==
    [load : {"ok", "raise"}, open : {"ok", "raise"}, add : {"ok", "raise"},
     create : {"ok", "raise_before", "raise_after"}]

\* lines 116-213
IngestResult(ds, chunks, outcome) ==
    IF outcome.load = "raise"
    THEN [dataset |-> ds, ret |-> "False"]
    ELSE IF outcome.open = "ok" /\ outcome.add = "ok"
    THEN [dataset |-> [exists |-> TRUE, chunks |-> ds.chunks \cup chunks], ret |-> "True"]
    ELSE LET opened == IF outcome.open = "ok"
                       THEN [exists |-> TRUE, chunks |-> ds.chunks]
                       ELSE ds
         IN  CASE outcome.create = "ok" ->
                    [dataset |-> [exists |-> TRUE, chunks |-> chunks], ret |-> "True"]
               [] outcome.create = "raise_before" ->
                    [dataset |-> opened, ret |-> "False"]
               [] outcome.create = "raise_after" ->
                    [dataset |-> [exists |-> TRUE, chunks |-> {}], ret |-> "False"]

InitIng ==
    /\ dataset \in Datasets
    /\ dataset_before = dataset
    /\ all_chunks = {}
    /\ ingest_outcome = NoOutcome
    /\ ingest_ret = "none"
    /\ UpdIdle
    /\ GenIdle
    /\ RetIdle
    /\ PlannerIdle
    /\ TwoIdle

\* one call of ingest_sdk_documentation on the dataset
Ingest ==
    /\ ingest_ret = "none"
    /\ \E chunks \in SUBSET Chunks, outcome \in IngestOutcomes :
        LET result == IngestResult(dataset, chunks, outcome)
        IN  /\ all_chunks' = chunks
            /\ ingest_outcome' = outcome
            /\ dataset' = result.dataset
            /\ ingest_ret' = result.ret
    /\ UNCHANGED dataset_before
    /\ UNCHANGED <<core_vars, upd_vars>>

NextIng == Ingest

IngSpec == InitIng /\ [][NextIng]_vars

GenSpec == InitGen /\ [][NextGen]_vars

NextRet == GetRelevantDocuments

RetSpec == InitRet /\ [][NextRet]_vars

GenFairSpec == GenSpec /\ WF_vars(NextGen)

\* ------------------------------------------------------- plan predicates
UniqueIds(p) == \A i, j \in DOMAIN p : p[i].id = p[j].id => i = j

PlanIds(p) == {p[i].id : i \in DOMAIN p}

AllDepsExist(p) == \A i \in DOMAIN p : p[i].dependencies \subseteq PlanIds(p)

\* the ids named as dependencies by the tasks whose id is in S
DepsOf(p, S) == UNION {p[i].dependencies : i \in {n \in DOMAIN p : p[n].id \in S}}

RECURSIVE Closure(_, _, _)
Closure(p, S, n) == IF n = 0 THEN S ELSE Closure(p, S \cup DepsOf(p, S), n - 1)

\* the ids reachable from id through one or more dependency edges
DependsOn(p, id) == Closure(p, DepsOf(p, {id}), Len(p))

HasCycle(p) == \E i \in DOMAIN p : p[i].id \in DependsOn(p, p[i].id)

\* ------------------------------------------------------------------- C1
\* C1: generate_from_plan terminates for every finite plan, cyclic,
\* self-dependent or with dangling dependencies: every pass of the while
\* loop removes at least one task from remaining_tasks, so at the loop head
\* the passes made plus the tasks left never exceed len(plan.tasks), the
\* loop makes at most len(plan.tasks) passes, and the call returns.
C1_LoopBound ==
    /\ iterations <= Len(plan)
    /\ pc = "while" => iterations + Len(remaining_tasks) <= Len(plan)
    /\ pc = "done" => remaining_tasks = <<>>

C1_Terminates == []C1_LoopBound /\ <>(pc = "done")

C1_Witness ==
    /\ pc = "done"
    /\ Len(plan) >= 2
    /\ iterations = Len(plan)
    /\ HasCycle(plan)
    /\ ~AllDepsExist(plan)
    /\ \E i \in DOMAIN plan : plan[i].id \in plan[i].dependencies

\* ------------------------------------------------------------------- C2
\* C2 as stated: for every plan without a dependency cycle, a task is
\* passed to generate_code_for_task only after every id in its
\* dependencies has been added to completed_tasks.
C2_TopologicalRespect ==
    ~HasCycle(plan) =>
        \A n \in DOMAIN calls : calls[n].task.dependencies \subseteq calls[n].completed

\* C2 amended: the same, for every plan without a dependency cycle whose
\* every dependency is the id of a task of the plan.
C2_TopologicalRespectClosed ==
    (~HasCycle(plan) /\ AllDepsExist(plan)) =>
        \A n \in DOMAIN calls : calls[n].task.dependencies \subseteq calls[n].completed

C2_Witness ==
    /\ pc = "done"
    /\ ~HasCycle(plan)
    /\ AllDepsExist(plan)
    /\ Len(plan) = 3
    /\ plan[1].dependencies = {plan[2].id, plan[3].id}
    /\ plan[2].dependencies = {plan[3].id}
    /\ calls[3].task = plan[1]

\* ------------------------------------------------------------------- C3
TwoCycle(p) ==
    /\ Len(p) = 2
    /\ p[1].id # p[2].id
    /\ p[1].dependencies = {p[2].id}
    /\ p[2].dependencies = {p[1].id}

TimesCalled(task) == Cardinality({n \in DOMAIN calls : calls[n].task = task})

\* C3: for every plan with unique task ids, cyclic or not, each task is
\* passed to generate_code_for_task exactly once (never twice on the way)
\* and task_outputs ends with exactly one entry per task id; the plan
\* {A depends on B, B depends on A} returns after exactly 2 passes of the
\* loop with 2 entries in task_outputs.
C3_ExactlyOnce ==
    UniqueIds(plan) =>
        /\ \A i \in DOMAIN plan : TimesCalled(plan[i]) <= 1
        /\ pc = "done" =>
            /\ Len(calls) = Len(plan)
            /\ \A i \in DOMAIN plan : TimesCalled(plan[i]) = 1
            /\ \A r \in retval :
                /\ Len(r.task_outputs) = Len(plan)
                /\ \A i \in DOMAIN plan :
                    Cardinality({n \in DOMAIN r.task_outputs :
                                    r.task_outputs[n].key = plan[i].id}) = 1
                /\ TwoCycle(plan) => (iterations = 2 /\ Len(r.task_outputs) = 2)
            /\ retval # {}

C3_Witness == pc = "done" /\ TwoCycle(plan) /\ iterations = 2

\* ------------------------------------------------------------------- C4
\* C4: when a batch has just been computed, it is the subsequence of
\* remaining_tasks, in plan order, of the tasks whose every dependency is
\* in completed_tasks (the j-th task of the batch is the j-th such task of
\* remaining_tasks); when there is no such task the batch is the first
\* task of remaining_tasks alone.
C4_Readiness ==
    (pc = "for" /\ idx = 1) =>
        LET sat == {k \in DOMAIN remaining_tasks :
                        remaining_tasks[k].dependencies \subseteq completed_tasks}
            rank(k) == Cardinality({j \in sat : j <= k})
        IN  IF sat # {}
            THEN /\ Len(ready_tasks) = Cardinality(sat)
                 /\ \A k \in sat : ready_tasks[rank(k)] = remaining_tasks[k]
            ELSE ready_tasks = <<remaining_tasks[1]>>

C4_Witness ==
    /\ pc = "for"
    /\ idx = 1
    /\ Len(remaining_tasks) = 3
    /\ ready_tasks = <<remaining_tasks[1], remaining_tasks[3]>>
    /\ remaining_tasks[2].dependencies # {}

\* ------------------------------------------------------------------- C9
LinearChain(p) ==
    /\ Len(p) = 3
    /\ UniqueIds(p)
    /\ p[1].dependencies = {}
    /\ p[2].dependencies = {p[1].id}
    /\ p[3].dependencies = {p[2].id}

RECURSIVE SumOverCalls(_)
SumOverCalls(N) ==
    IF N = {} THEN 0
    ELSE LET n == CHOOSE x \in N : TRUE
         IN  calls[n].result.confidence + SumOverCalls(N \ {n})

\* for each distinct task id, the last call made for a task with that id
LastCalls ==
    {n \in DOMAIN calls :
        \A m \in DOMAIN calls : calls[m].task.id = calls[n].task.id => m <= n}

\* C10 as stated: the returned confidence is the mean of the confidence of
\* every executed task's CodeOutput (sum = confidence * number of executed
\* tasks), and 0 when the plan has no tasks.
C10_MeanOfExecuted ==
    pc = "done" =>
        \A r \in retval :
            /\ r.confidence.den > 0
            /\ r.confidence.num * Len(calls) = r.confidence.den * SumOverCalls(DOMAIN calls)
            /\ plan = <<>> => r.confidence.num = 0

\* C10 amended: the returned confidence is the mean of the confidences held
\* in task_outputs, that is of the last CodeOutput generated for each
\* distinct task id; for a plan with unique ids that is every executed
\* task's CodeOutput (90, 60, 30 give 60), and it is 0 for an empty plan.
C10_MeanOfOutputs ==
    pc = "done" =>
        /\ retval # {}
        /\ \A r \in retval :
            /\ r.confidence.den > 0
            /\ r.confidence.num * Cardinality(LastCalls)
                    = r.confidence.den * SumOverCalls(LastCalls)
            /\ UniqueIds(plan) =>
                r.confidence.num * Len(plan)
                    = r.confidence.den * SumOverCalls(DOMAIN calls)
            /\ plan = <<>> => r.confidence.num = 0

C10_Witness ==
    /\ pc = "done"
    /\ UniqueIds(plan)
    /\ Len(calls) = 3
    /\ calls[1].result.confidence = 90
    /\ calls[2].result.confidence = 60
    /\ calls[3].result.confidence = 30
    /\ \A r \in retval : r.confidence.num = 60 * r.confidence.den

\* ------------------------------------------------------------------- C5
PrimaryContents == {vector_store.results[n].doc.page_content : n \in DOMAIN vector_store.results}

\* C5 as stated: whenever the primary source returns a non-empty result set
\* whose max score is below confidence_threshold, web search is enabled, a
\* secondary retriever is configured and it returns a document whose
\* content differs from every primary document, the returned list holds
\* secondary documents, all of them after the primary ones and none with
\* the content of a primary document.
C5_ConfidenceGate ==
    (/\ retrieved
     /\ ~vector_store.raised
     /\ vector_store.results # <<>>
     /\ \A n \in DOMAIN vector_store.results :
            vector_store.results[n].score < ConfidenceThreshold
     /\ use_web_search
     /\ web_retriever # "None"
     /\ \E w \in DOMAIN WebGetRelevantDocuments(search_wrapper) :
            WebGetRelevantDocuments(search_wrapper)[w].page_content \notin PrimaryContents)
    =>
        /\ \E n \in DOMAIN returned_docs : returned_docs[n].source = "web"
        /\ \A m, n \in DOMAIN returned_docs :
            (returned_docs[m].source = "vector" /\ returned_docs[n].source = "web")
                => (m < n /\ returned_docs[m].page_content # returned_docs[n].page_content)

\* ------------------------------------------------------------------- C6
\* C6: in every call where the primary query and the filter do not raise,
\* no primary document passes the filter (or the primary result is empty)
\* and a secondary retriever is configured, the secondary retriever is
\* queried and the call returns the first k of its documents, whatever
\* settings.use_web_search is.
C6_FallbackTrigger ==
    (/\ retrieved
     /\ ~vector_store.raised
     /\ web_retriever # "None"
     /\ \A n \in DOMAIN vector_store.results :
            /\ filter_fn.configured
            /\ ~filter_fn.raises
            /\ vector_store.results[n].doc.page_content \notin filter_fn.accepts)
    =>
        /\ web_queries = 1
        /\ Len(returned_docs) = Min(K, Len(web_docs))
        /\ \A n \in DOMAIN returned_docs : returned_docs[n] = web_docs[n]
        /\ web_docs = WebGetRelevantDocuments(search_wrapper)

C6_Witness ==
    /\ retrieved
    /\ ~use_web_search
    /\ ~vector_store.raised
    /\ vector_store.results # <<>>
    /\ filter_fn.configured
    /\ ~filter_fn.raises
    /\ PrimaryContents \cap filter_fn.accepts = {}
    /\ web_retriever # "None"
    /\ Len(web_docs) > K
    /\ returned_docs = Take(web_docs, K)
    /\ returned_docs # <<>>

\* ------------------------------------------------------------------- C7
\* C7 as stated: the returned list never holds two documents with equal
\* content, whatever the primary and the secondary source return.
C7_NoDuplicateContent ==
    retrieved =>
        \A m, n \in DOMAIN returned_docs :
            returned_docs[m].page_content = returned_docs[n].page_content => m = n

\* ------------------------------------------------------------------- C8
\* C8 as stated: when fallback is triggered and the secondary source
\* returns exactly the documents the primary source returned, the returned
\* list equals the primary result (same documents, same order).
C8_DedupIdempotence ==
    (/\ retrieved
     /\ ~vector_store.raised
     /\ web_queries = 1
     /\ PageContents(web_docs) = PageContents(VectorDocs(vector_store.results)))
    => PageContents(returned_docs) = PageContents(VectorDocs(vector_store.results))

\* C8 amended: when fallback is triggered and the secondary source returns
\* exactly the filtered primary result (the primary documents that pass
\* filter_fn, all of them without a filter), the returned list is that
\* filtered primary result, same documents in the same order.
C8_DedupIdempotenceFiltered ==
    (/\ retrieved
     /\ ~vector_store.raised
     /\ ~FilterRaises(VectorDocs(vector_store.results), filter_fn)
     /\ web_queries = 1
     /\ PageContents(web_docs)
            = PageContents(ApplyFilter(VectorDocs(vector_store.results), filter_fn)))
    => returned_docs = ApplyFilter(VectorDocs(vector_store.results), filter_fn)

C8_Witness ==
    /\ retrieved
    /\ ~vector_store.raised
    /\ web_queries = 1
    /\ filter_fn.configured
    /\ ~filter_fn.raises
    /\ Len(vector_store.results) = 2
    /\ Len(web_docs) = 1
    /\ Len(returned_docs) = 1
    /\ returned_docs[1].source = "vector"
    /\ PageContents(web_docs) = PageContents(returned_docs)

\* ------------------------------------------------------------------ C11
\* the first and the last call made for a task with the id of call n
IsFirstOfId(n) == \A m \in DOMAIN calls : calls[m].task.id = calls[n].task.id => n <= m

LastOfId(n) ==
    CHOOSE l \in DOMAIN calls :
        /\ calls[l].task.id = calls[n].task.id
        /\ \A m \in DOMAIN calls : calls[m].task.id = calls[n].task.id => m <= l

\* the lists of field f of the calls from n on, in the order of the calls
RECURSIVE PerCall(_, _)
PerCall(f, n) ==
    IF n > Len(calls) THEN <<>>
    ELSE OrEmpty(calls[n].result[f]) \o PerCall(f, n + 1)

\* the lists of field f held under each id, in the order the ids first completed
RECURSIVE PerId(_, _)
PerId(f, n) ==
    IF n > Len(calls) THEN <<>>
    ELSE (IF IsFirstOfId(n) THEN OrEmpty(calls[LastOfId(n)].result[f]) ELSE <<>>)
         \o PerId(f, n + 1)

\* C11 as stated: the returned missing_info and suggestions are the
\* per-task lists concatenated in the order in which the tasks completed;
\* an absent or empty list contributes nothing.
C11_CompletionOrder ==
    pc = "done" =>
        \A r \in retval :
            /\ r.missing_info = PerCall("missing_info", 1)
            /\ r.suggestions = PerCall("suggestions", 1)

\* C11 amended: the returned missing_info and suggestions are the lists of
\* the CodeOutputs held in task_outputs (the last output generated for each
\* distinct task id), concatenated in the order in which the ids first
\* completed; for a plan with unique ids these are the per-task lists in
\* completion order; an absent or empty list contributes nothing.
C11_OutputOrder ==
    pc = "done" =>
        /\ retval # {}
        /\ \A r \in retval :
            /\ r.missing_info = PerId("missing_info", 1)
            /\ r.suggestions = PerId("suggestions", 1)
            /\ UniqueIds(plan) =>
                /\ r.missing_info = PerCall("missing_info", 1)
                /\ r.suggestions = PerCall("suggestions", 1)

\* the second declared task completes first; one list absent, one empty
C11_Witness ==
    /\ pc = "done"
    /\ UniqueIds(plan)
    /\ Len(calls) = 3
    /\ calls[1].task = plan[2]
    /\ calls[1].raised
    /\ calls[2].result.missing_info = {<<"m">>}
    /\ calls[3].result.missing_info = {<<>>}
    /\ \A r \in retval :
        /\ Len(r.missing_info) = 2
        /\ r.missing_info[2] = "m"
        /\ r.suggestions = <<"t">>

\* ------------------------------------------------------------------ C12
\* C12: on a plan without tasks generate_from_plan makes no pass of the
\* loop and no call of generate_code_for_task, and returns confidence 0
\* (no division by zero), empty code, empty task_outputs, empty
\* missing_info and empty suggestions.
C12_EmptyPlan ==
    plan = <<>> =>
        /\ calls = <<>>
        /\ iterations = 0
        /\ pc = "done" =>
            /\ retval # {}
            /\ \A r \in retval :
                /\ r.confidence.den > 0
                /\ r.confidence.num = 0
                /\ r.code = <<>>
                /\ r.task_outputs = <<>>
                /\ r.missing_info = <<>>
                /\ r.suggestions = <<>>

C12_Witness == plan = <<>> /\ pc = "done" /\ retval # {}

\* ------------------------------------------------------------------ C18
\* the blocks of the first n calls, in the order of the calls
BlocksOfCalls(n) ==
    [m \in 1..n |-> [description |-> calls[m].task.description,
                     code |-> calls[m].result.code]]

\* C18: the previous_code passed to generate_code_for_task holds exactly
\* one block (task description and generated code) for each task completed
\* before the call, in completion order, and none of a task not yet
\* completed; it is empty for the first executed task; the code returned
\* by generate_from_plan is that concatenation over all tasks.
C18_PreviousCode ==
    /\ \A n \in DOMAIN calls : calls[n].previous_code = BlocksOfCalls(n - 1)
    /\ calls # <<>> => calls[1].previous_code = <<>>
    /\ all_code = BlocksOfCalls(Len(calls))
    /\ pc = "done" =>
        /\ retval # {}
        /\ \A r \in retval : r.code = BlocksOfCalls(Len(calls))

\* three tasks completed in an order other than the declared one
C18_Witness ==
    /\ pc = "done"
    /\ Len(calls) = 3
    /\ calls[1].task = plan[3]
    /\ calls[1].raised
    /\ Len(calls[3].previous_code) = 2
    /\ calls[3].previous_code[1].description = plan[3].description
    /\ \A r \in retval : Len(r.code) = 3

\* ------------------------------------------------------------------ C19
\* the ids completed in the passes before pass p
CompletedBefore(p) == {calls[m].task.id : m \in {k \in DOMAIN calls : calls[k].pass < p}}

CallsOfPass(p) == {k \in DOMAIN calls : calls[k].pass = p}

\* C19: the tasks of a readiness batch execute in the batch's listed
\* order; the next batch is computed only after every task of the current
\* batch has completed and its id is in completed_tasks; a task that
\* becomes ready because of a completion inside the current batch is not
\* executed before the next batch (a task executes in a pass only if its
\* dependencies completed in earlier passes, or it is the one task of a
\* forced pass).
C19_BatchOrder ==
    /\ pc = "for" =>
        /\ idx - 1 <= Len(calls)
        /\ \A j \in 1..(idx - 1) :
            /\ calls[Len(calls) - (idx - 1) + j].task = ready_tasks[j]
            /\ calls[Len(calls) - (idx - 1) + j].pass = iterations
        /\ CallsOfPass(iterations) = (Len(calls) - (idx - 1) + 1)..Len(calls)
    /\ (pc = "while" /\ iterations > 0) =>
        /\ Len(ready_tasks) <= Len(calls)
        /\ \A j \in DOMAIN ready_tasks :
            /\ calls[Len(calls) - Len(ready_tasks) + j].task = ready_tasks[j]
            /\ ready_tasks[j].id \in completed_tasks
        /\ Cardinality(CallsOfPass(iterations)) = Len(ready_tasks)
    /\ \A n \in DOMAIN calls :
        /\ \A m \in 1..n : calls[m].pass <= calls[n].pass
        /\ \/ calls[n].task.dependencies \subseteq CompletedBefore(calls[n].pass)
           \/ CallsOfPass(calls[n].pass) = {n}

\* the second task depends on the first and waits for the second batch,
\* the third is in the first batch
C19_Witness ==
    /\ pc = "done"
    /\ Len(plan) = 3
    /\ UniqueIds(plan)
    /\ plan[1].dependencies = {}
    /\ plan[2].dependencies = {plan[1].id}
    /\ plan[3].dependencies = {}
    /\ calls[1].task = plan[1] /\ calls[1].pass = 1
    /\ calls[2].task = plan[3] /\ calls[2].pass = 1
    /\ calls[3].task = plan[2] /\ calls[3].pass = 2

\* ------------------------------------------------------------------ C20
\* the batch just computed came from the forced-progress rule of line 191
Forced ==
    /\ pc = "for"
    /\ idx = 1
    /\ \E j \in DOMAIN ready_tasks :
        ~(ready_tasks[j].dependencies \subseteq completed_tasks)

\* C20: forced progress happens only when the remaining tasks contain a
\* dependency cycle or depend on an id that is not in the plan; a plan
\* that is acyclic and whose dependencies all exist, in whatever listing
\* order, never comes to the forced-progress rule.
C20_ForcedOnlyIfStuck ==
    Forced =>
        /\ \/ HasCycle(remaining_tasks)
           \/ \E k \in DOMAIN remaining_tasks :
                ~(remaining_tasks[k].dependencies \subseteq PlanIds(plan))
        /\ HasCycle(plan) \/ ~AllDepsExist(plan)

\* forced by a cycle among the last two tasks, after a first regular batch
C20_Witness ==
    /\ Forced
    /\ iterations = 2
    /\ Len(remaining_tasks) = 2
    /\ AllDepsExist(plan)
    /\ HasCycle(remaining_tasks)
    /\ ready_tasks = <<remaining_tasks[1]>>

\* ------------------------------------------------------------------ C13
\* C13: when the primary vector-store query raises, no error leaves
\* _get_relevant_documents; with a secondary retriever configured the call
\* queries it once and returns its results truncated to k, without one it
\* returns the empty list.
C13_PrimaryFailure ==
    (retrieved /\ vector_store.raised) =>
        /\ ~propagated
        /\ IF web_retriever # "None"
           THEN /\ web_queries = 1
                /\ returned_docs = Take(web_docs, K)
                /\ Len(returned_docs) <= K
           ELSE /\ web_queries = 0
                /\ returned_docs = <<>>

\* the secondary retriever holds more than k documents
C13_Witness ==
    /\ retrieved
    /\ vector_store.raised
    /\ web_retriever # "None"
    /\ Len(web_docs) > K
    /\ Len(returned_docs) = K
    /\ returned_docs[1] = web_docs[1]

\* ------------------------------------------------------------------ C14
\* the primary part of the call failed: the query or the filter raised
PrimaryFailed ==
    vector_store.raised \/ FilterRaises(VectorDocs(vector_store.results), filter_fn)

\* C14: an error raised while the secondary source is queried or while a
\* result page is loaded never leaves _get_relevant_documents; a failed
\* query gives an empty secondary result (the call returns the primary
\* documents alone in the low-confidence path, nothing in the
\* primary-failure path) and a page that fails to load contributes no
\* document.
C14_SecondaryFailure ==
    retrieved =>
        /\ ~propagated
        /\ (web_queries > 0 /\ search_wrapper.raised) =>
            /\ web_docs = <<>>
            /\ IF PrimaryFailed
               THEN returned_docs = <<>>
               ELSE returned_docs = ApplyFilter(VectorDocs(vector_store.results), filter_fn)
        /\ (web_queries > 0 /\ ~search_wrapper.raised) =>
            /\ \A n \in DOMAIN web_docs : web_docs[n].page_content \in Contents
            /\ Len(web_docs) = Cardinality({n \in DOMAIN search_wrapper.results :
                                              search_wrapper.results[n] \in Contents})

\* the search fails in the low-confidence path, the primary documents are
\* returned
C14_Witness ==
    /\ retrieved
    /\ ~PrimaryFailed
    /\ web_queries = 1
    /\ search_wrapper.raised
    /\ returned_docs # <<>>
    /\ ~propagated

\* ------------------------------------------------------------------ C15
\* C15: in one call of _get_relevant_documents the secondary source is
\* queried at most once, whatever the primary source, the filter and the
\* secondary source do, raising included, and never when no secondary
\* retriever is configured.
C15_SingleFallback ==
    /\ web_queries <= 1
    /\ web_retriever = "None" => web_queries = 0

\* the filter raises and the web search raises: one query
C15_Witness ==
    /\ retrieved
    /\ ~vector_store.raised
    /\ FilterRaises(VectorDocs(vector_store.results), filter_fn)
    /\ search_wrapper.raised
    /\ web_queries = 1

\* ------------------------------------------------------------------ C16
\* C16: create_plan never raises and always returns a plan with at least
\* one task (when planning fails, the single task 'fallback_task' without
\* dependencies), so generate_from_plan always receives a non-empty plan.
C16_NonEmptyPlan ==
    pc # "create_plan" =>
        /\ planner \in {"ok", "failed"}
        /\ planner = "failed" => plan = FallbackPlan
        /\ Len(plan) >= 1

\* ------------------------------------------------------------------ C17
\* the blocks of the first n calls of invocation i
OwnBlocks(i, n) ==
    [m \in 1..n |-> [description |-> inv[i].calls[m].task.description,
                     code |-> inv[i].calls[m].result.code]]

OwnIds(i, n) == {inv[i].calls[m].task.id : m \in 1..n}

\* the four accumulators of invocation i are what its own calls made them
OwnedBy(i) ==
    LET c == Cell(i)
        called == {inv[i].calls[m].task : m \in DOMAIN inv[i].calls}
    IN  /\ c.completed_tasks = OwnIds(i, Len(inv[i].calls))
        /\ c.all_code = OwnBlocks(i, Len(inv[i].calls))
        /\ c.remaining_tasks = SelectSeq(inv[i].plan, LAMBDA t : t \notin called)
        /\ {c.task_outputs[n].key : n \in DOMAIN c.task_outputs}
                = OwnIds(i, Len(inv[i].calls))
        /\ \A n \in DOMAIN c.task_outputs :
            \E m \in DOMAIN inv[i].calls :
                /\ inv[i].calls[m].task.id = c.task_outputs[n].key
                /\ inv[i].calls[m].result = c.task_outputs[n].value
        /\ inv[i].calls = <<>> =>
            /\ c.completed_tasks = {}
            /\ c.all_code = <<>>
            /\ c.task_outputs = <<>>
            /\ c.remaining_tasks = inv[i].plan
        /\ \A n \in DOMAIN inv[i].calls :
            /\ inv[i].calls[n].previous_code = OwnBlocks(i, n - 1)
            /\ inv[i].calls[n].completed = OwnIds(i, n - 1)
        /\ \A r \in inv[i].retval : r.code = OwnBlocks(i, Len(inv[i].calls))

\* C17: completed_tasks, remaining_tasks, all_code and task_outputs belong
\* to one invocation of generate_from_plan: an invocation starts with all
\* of them empty (remaining = its plan), what it reads and holds comes from
\* its own calls only, and a step of another invocation on the same
\* generator, before, after or in between, leaves them unchanged.
C17_InvocationIsolation ==
    /\ [](\A i \in Invocations : inv[i].pc # "idle" => OwnedBy(i))
    /\ [][\A i \in Invocations : inv'[i] = inv[i] => Cell(i)' = Cell(i)]_vars

\* two invocations in flight, each after its first call
C17_Witness ==
    /\ \A i \in Invocations :
        /\ Len(inv[i].plan) = 2
        /\ Len(inv[i].calls) = 1
        /\ inv[i].pc = "while"
    /\ Cell(1).all_code # Cell(2).all_code

\* ------------------------------------------------------------------ C21
\* the primary results that pass the filter, documents and scores
FilteredResults ==
    IF filter_fn.configured
    THEN SelectSeq(vector_store.results, LAMBDA r : r.doc.page_content \in filter_fn.accepts)
    ELSE vector_store.results

FilteredDocs == [n \in DOMAIN FilteredResults |-> FilteredResults[n].doc]

\* C21: when the fallback is triggered (the secondary source is queried in
\* the try block) and primary results exist, the result is the first k
\* elements of the primary results in their order followed by the
\* secondary results, in their order, whose content equals no primary
\* result's content; when there are no primary results, the result is the
\* first k secondary results.
C21_MergePolicy ==
    (retrieved /\ ~PrimaryFailed /\ web_queries = 1) =>
        LET fresh == SelectSeq(web_docs, LAMBDA w :
                        \A n \in DOMAIN FilteredDocs :
                            w.page_content # FilteredDocs[n].page_content)
            merged == FilteredDocs \o fresh
        IN  IF FilteredDocs # <<>>
            THEN returned_docs = [n \in 1..Min(K, Len(merged)) |-> merged[n]]
            ELSE returned_docs = [n \in 1..Min(K, Len(web_docs)) |-> web_docs[n]]

\* one primary document; the first web document repeats it, the second is
\* appended, the third is cut by k
C21_Witness ==
    /\ retrieved
    /\ ~PrimaryFailed
    /\ web_queries = 1
    /\ Len(FilteredDocs) = 1
    /\ Len(web_docs) = 3
    /\ web_docs[1].page_content = FilteredDocs[1].page_content
    /\ web_docs[2].page_content # FilteredDocs[1].page_content
    /\ web_docs[3].page_content \notin {web_docs[1].page_content, web_docs[2].page_content}
    /\ returned_docs = <<FilteredDocs[1], web_docs[2]>>

\* ------------------------------------------------------------------ C22
\* the largest score among the results that pass the filter
FilteredMax == MaxConfidence([n \in DOMAIN FilteredResults |-> FilteredResults[n].score])

\* C22: when the filtered primary result is not empty and its max score is
\* at least confidence_threshold, the secondary source is not queried and
\* the call returns exactly the filtered primary results; the same when
\* the score is below the threshold but settings.use_web_search is off or
\* no secondary retriever is configured.
C22_NoFallback ==
    (/\ retrieved
     /\ ~PrimaryFailed
     /\ FilteredDocs # <<>>
     /\ \/ FilteredMax >= ConfidenceThreshold
        \/ ~use_web_search
        \/ web_retriever = "None")
    =>
        /\ web_queries = 0
        /\ web_docs = <<>>
        /\ returned_docs = FilteredDocs
        /\ ~propagated

\* a low score, a secondary retriever, web search off
C22_Witness ==
    /\ retrieved
    /\ ~PrimaryFailed
    /\ filter_fn.configured
    /\ Len(vector_store.results) = 2
    /\ Len(FilteredDocs) = 1
    /\ FilteredMax < ConfidenceThreshold
    /\ ~use_web_search
    /\ web_retriever # "None"
    /\ search_wrapper.results # <<>>
    /\ web_queries = 0
    /\ returned_docs = FilteredDocs

\* ------------------------------------------------------------------ C23
\* C23 as stated: with a filter configured, the max score compared with
\* confidence_threshold is taken over the results that pass the filter: a
\* high-scoring result the filter rejects does not suppress the fallback.
C23_FilterBeforeScoring ==
    (/\ retrieved
     /\ ~PrimaryFailed
     /\ filter_fn.configured
     /\ use_web_search
     /\ web_retriever # "None"
     /\ FilteredDocs # <<>>
     /\ FilteredMax < ConfidenceThreshold)
    => web_queries = 1

\* ------------------------------------------------------------------ C24
\* C24 as stated: after start() returns the updater service is running:
\* running is True and the updater thread is alive, whatever start() and
\* stop() calls came before, start() right after a stop() whose join
\* timed out included.
C24_StartedRuns ==
    (last_call = "start" /\ caller = "idle") =>
        /\ running
        /\ Alive(thread)

\* ------------------------------------------------------------------ C25
InUpdateAll == {e \in Executors : pass[e].pos > 0}

\* C25 as stated: at most one pass of update_all is in progress at any
\* time; force_update() never runs update_all while the updater thread runs
\* a scheduled one.
C25_OnePassAtATime == Cardinality(InUpdateAll) <= 1

\* ------------------------------------------------------------------ C27
\* the repositories 1..n in order
InOrder(attempts, n) ==
    /\ Len(attempts) = n
    /\ \A k \in 1..n : attempts[k].repo = repo_urls[k]

Successes(attempts) ==
    Cardinality({k \in DOMAIN attempts : attempts[k].result = "True"})

\* C27: a pass of update_all attempts every configured pair exactly once,
\* in order: while it runs, the attempts made are the repositories before
\* the current one, whatever their ingestions did; it ends with all of
\* them attempted, no exception leaves it, and it sets last_update at the
\* end of every pass, whatever the number of successes.
C27_EveryRepoOnce ==
    /\ \A e \in InUpdateAll :
        /\ InOrder(pass[e].attempts, pass[e].pos - 1)
        /\ pass[e].success_count = Successes(pass[e].attempts)
    /\ finished > 0 =>
        /\ InOrder(log.attempts, Len(repo_urls))
        /\ ~log.propagated
        /\ log.last_update_set
        /\ log.success_count = Successes(log.attempts)
    /\ last_update = finished

\* a pass whose first ingestion raised and whose second returned False
C27_Witness ==
    /\ finished > 0
    /\ Len(log.attempts) = 2
    /\ log.attempts[1].result = "raised"
    /\ log.attempts[2].result = "False"
    /\ log.success_count = 0
    /\ last_update = finished

\* ------------------------------------------------------------------ C26
\* C26 as stated: every chunk stored in the dataset before a call of
\* ingest_sdk_documentation is still stored after it, whether the call
\* returns True or False and whether or not adding the new chunks to the
\* existing dataset fails.
C26_OnlyAdds ==
    ingest_ret # "none" => dataset_before.chunks \subseteq dataset.chunks

====
